---- MODULE Spec2Model ----
(***************************************************************************)
(* Routine Finder (app.js): the filter-and-sort query engine, the          *)
(* population of the select options, the dataset load with its             *)
(* localStorage fallback, and the event handlers that drive them.          *)
(*                                                                         *)
(* Strings are sequences of one-character strings, so that trim,           *)
(* toLowerCase, join, includes and the slot regular expression are          *)
(* computed character by character.  A row object is a function from the   *)
(* six column names to strings; a missing property reads as Undefined.     *)
(* Arrays of rows that alias the loaded array's objects (the result of     *)
(* rows.filter, the sorted array) are sequences of indices into rows: an   *)
(* index is the identity of a row object.                                  *)
(***************************************************************************)
EXTENDS Integers, Sequences, FiniteSets, TLC

VARIABLES
  els,       \* value of #q and of the six selects
  options,   \* option values of the six selects
  tbody,     \* content of #tbody
  count,     \* text of #count
  rows,      \* init's local `rows`, as a JSON value
  filtered,  \* render's local `filtered` as applyFilters returned it; <<>> when the
             \* handler that ran last never assigned it
  cache,     \* localStorage["routineData"]
  phase,     \* where init() is: "loading", "ready" (returned), "failed" (threw)
  last       \* the code that wrote the display last

vars == <<els, options, tbody, count, rows, filtered, cache, phase, last>>

(***************************************************************************)
(* Bounds of the model.                                                    *)
(***************************************************************************)
MaxRows == 3     \* rows in a loaded dataset
MaxActive == 2   \* filter inputs holding a value at the same time

(***************************************************************************)
(* Characters and strings.                                                 *)
(***************************************************************************)
UpperChars == <<"A","B","C","D","E","F","G","H","I","J","K","L","M",
                "N","O","P","Q","R","S","T","U","V","W","X","Y","Z">>
LowerChars == <<"a","b","c","d","e","f","g","h","i","j","k","l","m",
                "n","o","p","q","r","s","t","u","v","w","x","y","z">>
Digits == <<"0","1","2","3","4","5","6","7","8","9">>

Range(s) == {s[i] : i \in DOMAIN s}
IndexIn(s, c) == CHOOSE i \in DOMAIN s : s[i] = c
MinOf(S) == CHOOSE x \in S : \A y \in S : x <= y

DigitSet == Range(Digits)
UpperSet == Range(UpperChars)
IsSpace(c) == c = " "
IsDigit(c) == c \in DigitSet
IsUpper(c) == c \in UpperSet

\* A property the object does not have.
Undefined == <<"undefined">>
EmptyString == <<>>

\* `v || ""`, `v ?? ""`, and what Array.prototype.join makes of undefined.
Str(v) == IF v = Undefined THEN EmptyString ELSE v

\* JavaScript truthiness of a string-or-undefined value.
Truthy(v) == v # Undefined /\ v # EmptyString

LowerChar(c) == IF IsUpper(c) THEN LowerChars[IndexIn(UpperChars, c)] ELSE c
toLowerCase(s) == [i \in 1..Len(s) |-> LowerChar(s[i])]

trim(s) ==
  LET keep == {i \in 1..Len(s) : ~IsSpace(s[i])}
  IN IF keep = {} THEN EmptyString
     ELSE SubSeq(s, MinOf(keep), CHOOSE i \in keep : \A j \in keep : j <= i)

includes(s, q) ==
  \E i \in 0..(Len(s) - Len(q)) : SubSeq(s, i + 1, i + Len(q)) = q

RECURSIVE join(_, _)
join(parts, sep) ==
  IF Len(parts) = 0 THEN EmptyString
  ELSE IF Len(parts) = 1 THEN Str(parts[1])
  ELSE Str(parts[1]) \o sep \o join(Tail(parts), sep)

RECURSIVE Number(_)
Number(ds) ==
  IF Len(ds) = 0 THEN 0
  ELSE Number(SubSeq(ds, 1, Len(ds) - 1)) * 10 + (IndexIn(Digits, ds[Len(ds)]) - 1)

\* Three-way comparison of two sequences of integers, element by element.
LexCmp(a, b) ==
  LET n == IF Len(a) < Len(b) THEN Len(a) ELSE Len(b)
      D == {i \in 1..n : a[i] # b[i]}
  IN IF D = {} THEN Len(a) - Len(b) ELSE a[MinOf(D)] - b[MinOf(D)]

\* UTF-16 code unit order of the characters the model uses.
AsciiChars == <<" ">> \o Digits \o UpperChars \o LowerChars
CodeUnit(c) == IndexIn(AsciiChars, c)

\* The comparison Array.prototype.sort() makes without a comparator.
defaultCompare(a, b) ==
  LexCmp([i \in 1..Len(a) |-> CodeUnit(a[i])], [i \in 1..Len(b) |-> CodeUnit(b[i])])

\* String.prototype.localeCompare over the model's characters: base
\* characters first (space, digits, letters regardless of case), then case
\* with lower case before upper case.
CollationChars == <<" ">> \o Digits \o LowerChars
localeCompare(a, b) ==
  LET prim(s) == [i \in 1..Len(s) |-> IndexIn(CollationChars, LowerChar(s[i]))]
      tert(s) == [i \in 1..Len(s) |-> IF IsUpper(s[i]) THEN 1 ELSE 0]
      p == LexCmp(prim(a), prim(b))
  IN IF p # 0 THEN p ELSE LexCmp(tert(a), tert(b))

(***************************************************************************)
(* Arrays.                                                                 *)
(***************************************************************************)
\* The indices of I, ascending: Array.prototype.filter keeps the elements
\* that pass in the order they have.
Ascending(I) ==
  [k \in 1..Cardinality(I) |-> CHOOSE i \in I : Cardinality({j \in I : j < i}) = k - 1]

Orderings(s) ==
  LET n == Len(s)
      P == {p \in [1..n -> 1..n] : \A i, j \in 1..n : i # j => p[i] # p[j]}
  IN {[k \in 1..n |-> s[p[k]]] : p \in P}

\* A comparator is a function cmp with cmp[a][b] the number comparefn(a, b)
\* returns.  ECMA-262 "consistent comparator" for the elements of S:
ConsistentComparator(S, cmp) ==
  /\ \A a \in S : cmp[a][a] = 0
  /\ \A a, b \in S : cmp[a][b] = 0 => cmp[b][a] = 0
  /\ \A a, b, c \in S : cmp[a][b] = 0 /\ cmp[b][c] = 0 => cmp[a][c] = 0
  /\ \A a, b, c \in S : cmp[a][b] < 0 /\ cmp[b][c] < 0 => cmp[a][c] < 0
  /\ \A a, b, c \in S : cmp[a][b] > 0 /\ cmp[b][c] > 0 => cmp[a][c] > 0

\* The stable sort of s: the element at index i goes behind every element
\* that compares smaller and every equal element that stood before it.
StableSort(s, cmp) ==
  LET pos(i) == 1 + Cardinality({j \in DOMAIN s :
                     j # i /\ (cmp[s[j]][s[i]] < 0 \/ (cmp[s[j]][s[i]] = 0 /\ j < i))})
  IN [k \in 1..Len(s) |-> s[CHOOSE i \in DOMAIN s : pos(i) = k]]

\* Array.prototype.sort(cmp): the set of arrays it may leave behind.  With a
\* consistent comparator the sort is stable (ES2019) and the result is unique;
\* otherwise the order is implementation-defined: some permutation.
ArraySort(s, cmp) ==
  IF ConsistentComparator(Range(s), cmp) THEN {StableSort(s, cmp)} ELSE Orderings(s)

\* const uniq = arr => Array.from(new Set(arr.filter(Boolean)))
\* A Set iterates in insertion order: the order of first occurrence.
uniqKeepingDuplicates(arr) == SelectSeq(arr, Truthy)
uniq(arr) ==
  LET t == SelectSeq(arr, Truthy)
      first == Ascending({i \in 1..Len(t) : \A j \in 1..(i - 1) : t[j] # t[i]})
  IN [k \in 1..Len(first) |-> t[first[k]]]

(***************************************************************************)
(* slotOrder and dayOrder.                                                 *)
(***************************************************************************)
SlotSentinel == 9999
DayUnknown == 99

SkipSpaces(s, j) == MinOf({k \in j..(Len(s) + 1) : k = Len(s) + 1 \/ ~IsSpace(s[k])})
DigitsEnd(s, j) == MinOf({k \in j..(Len(s) + 1) : k = Len(s) + 1 \/ ~IsDigit(s[k])}) - 1

\* /slot\s*(\d+)/i matches s from position i on.
SlotMatchAt(s, i) ==
  /\ i + 3 <= Len(s)
  /\ toLowerCase(SubSeq(s, i, i + 3)) = <<"s","l","o","t">>
  /\ LET j == SkipSpaces(s, i + 4) IN j <= Len(s) /\ IsDigit(s[j])

slotOrder(slot) ==
  LET s == Str(slot)
      M == {i \in 1..Len(s) : SlotMatchAt(s, i)}
  IN IF M = {} THEN SlotSentinel
     ELSE LET j == SkipSpaces(s, MinOf(M) + 4)
          IN Number(SubSeq(s, j, DigitsEnd(s, j)))

Sunday    == <<"S","u","n","d","a","y">>
Monday    == <<"M","o","n","d","a","y">>
Tuesday   == <<"T","u","e","s","d","a","y">>
Wednesday == <<"W","e","d","n","e","s","d","a","y">>
Thursday  == <<"T","h","u","r","s","d","a","y">>
Friday    == <<"F","r","i","d","a","y">>
Saturday  == <<"S","a","t","u","r","d","a","y">>

DAY_ORDER ==
  (Sunday :> 1) @@ (Monday :> 2) @@ (Tuesday :> 3) @@ (Wednesday :> 4) @@
  (Thursday :> 5) @@ (Friday :> 6) @@ (Saturday :> 7)

dayOrder(day) == IF day \in DOMAIN DAY_ORDER THEN DAY_ORDER[day] ELSE DayUnknown

(***************************************************************************)
(* Inputs: the rows a sheet may hold and the texts a user may type.        *)
(***************************************************************************)
Row(day, slot, course, teacher, semsec, room) ==
  ("Day" :> day) @@ ("Time Slot" :> slot) @@ ("Course Code" :> course) @@
  ("Teacher" :> teacher) @@ ("Semester & Section" :> semsec) @@ ("Room" :> room)

Slot10    == <<"S","l","o","t"," ","1","0">>
Slot2     == <<"S","l","o","t"," ","2">>
slot2     == <<"s","l","o","t","2">>
Lab       == <<"L","a","b">>
Slot10000 == <<"S","l","o","t"," ","1","0","0","0","0">>
sunday    == <<"s","u","n","d","a","y">>
Fri       == <<"F","r","i">>
C1 == <<"C","1">>
C2 == <<"C","2">>
T1 == <<"T","1">>
R1 == <<"R","1">>
R2 == <<"R","2">>
Sem == <<"3","A">>

RowUniverse ==
  { Row(Monday,    Slot10,    C2,          T1,        Sem,       R1),
    Row(Sunday,    Slot2,     C1,          T1,        Sem,       R2),
    Row(Undefined, Slot2,     C1,          Undefined, Sem,       R1),
    Row(sunday,    slot2,     C1,          T1,        Sem,       R2),
    Row(Undefined, Lab,       C1,          T1,        Undefined, R1),
    Row(Fri,       Slot10000, EmptyString, T1,        Sem,       EmptyString) }

RECURSIVE SeqsUpTo(_, _)
SeqsUpTo(S, n) ==
  IF n = 0 THEN {<<>>}
  ELSE LET shorter == SeqsUpTo(S, n - 1)
       IN shorter \cup {Append(s, x) : s \in shorter, x \in S}

Datasets == SeqsUpTo(RowUniverse, MaxRows)

\* What the user may leave in the query box.
QInputs ==
  { EmptyString,
    <<" ">>,
    <<" ","C","2"," ">>,
    <<"Y"," ","S">>,
    <<"z","z">> }

(***************************************************************************)
(* Rows and filters.                                                       *)
(***************************************************************************)
Columns == <<"Day", "Time Slot", "Course Code", "Teacher", "Semester & Section", "Room">>
Selects == <<"day", "slot", "course", "teacher", "semsec", "room">>
\* The column each select filters on.
ColumnOf(k) == Columns[IndexIn(Selects, k)]

\* els.q.value.trim().toLowerCase(), tabulated for the texts of QInputs.
normalizedQuery == [v \in QInputs |-> toLowerCase(trim(v))]

currentFilters(e) ==
  [q |-> normalizedQuery[e.q], day |-> e.day, slot |-> e.slot, course |-> e.course,
   teacher |-> e.teacher, semsec |-> e.semsec, room |-> e.room]

hasAnyFilter(e) ==
  LET f == currentFilters(e) IN \E k \in DOMAIN f : Truthy(f[k])

\* [r.Day, ..., r.Room].join(" ").toLowerCase().includes(q), tabulated for
\* the rows of RowUniverse and the queries of QInputs.
queryIncludes ==
  [r \in RowUniverse |->
     LET text == toLowerCase(join([i \in 1..Len(Columns) |-> r[Columns[i]]], <<" ">>))
     IN [q \in Range(normalizedQuery) |-> includes(text, q)]]

\* The predicate of rows.filter in applyFilters.
matchRowIgnoringRoom(r, f) ==
  LET matchQ == ~Truthy(f.q) \/ queryIncludes[r][f.q]
  IN /\ matchQ
     /\ (~Truthy(f.day) \/ r["Day"] = f.day)
     /\ (~Truthy(f.slot) \/ r["Time Slot"] = f.slot)
     /\ (~Truthy(f.course) \/ r["Course Code"] = f.course)
     /\ (~Truthy(f.teacher) \/ r["Teacher"] = f.teacher)
     /\ (~Truthy(f.semsec) \/ r["Semester & Section"] = f.semsec)
matchRow(r, f) ==
  LET matchQ == ~Truthy(f.q) \/ queryIncludes[r][f.q]
  IN /\ matchQ
     /\ (~Truthy(f.day) \/ r["Day"] = f.day)
     /\ (~Truthy(f.slot) \/ r["Time Slot"] = f.slot)
     /\ (~Truthy(f.course) \/ r["Course Code"] = f.course)
     /\ (~Truthy(f.teacher) \/ r["Teacher"] = f.teacher)
     /\ (~Truthy(f.semsec) \/ r["Semester & Section"] = f.semsec)
     /\ (~Truthy(f.room) \/ r["Room"] = f.room)

\* applyFilters(rows): the kept row objects, as indices into rs.
applyFilters(rs, e) ==
  LET f == currentFilters(e) IN Ascending({i \in 1..Len(rs) : matchRow(rs[i], f)})

\* The comparator render hands to filtered.sort.
compare(a, b) ==
  IF a["Day"] # b["Day"] THEN dayOrder(a["Day"]) - dayOrder(b["Day"])
  ELSE LET sa == slotOrder(a["Time Slot"])
           sb == slotOrder(b["Time Slot"])
       IN IF sa # sb THEN sa - sb
          ELSE localeCompare(Str(a["Course Code"]), Str(b["Course Code"]))

\* compare, tabulated for the rows of RowUniverse.
compared == [a \in RowUniverse |-> [b \in RowUniverse |-> compare(a, b)]]

(***************************************************************************)
(* The display and render.                                                 *)
(***************************************************************************)
SelectText == "Select a filter to view routine"
FoundText  == "class(es) found"
FailedText == "Failed to load routine from Google Sheet"

\* #count: its message and, for `${n} class(es) found`, the number in it.
CountText(text, n) == [text |-> text, n |-> n]
\* #tbody: empty, the "No matches" row, or one <tr> per row object of trs.
Blank     == [html |-> "", trs |-> <<>>]
NoMatches == [html |-> "No matches. Try another filter.", trs |-> <<>>]
TableRows(s) == [html |-> "rows", trs |-> s]

\* render(rows): what it may leave in #tbody, #count and its local `filtered`.
renderWithoutShortCircuit(rs, e) ==
  LET f == applyFilters(rs, e)
      cmp == [a \in Range(f) |-> [b \in Range(f) |-> compared[rs[a]][rs[b]]]]
  IN {[tbody |-> IF Len(s) = 0 THEN NoMatches ELSE TableRows(s),
       count |-> CountText(FoundText, Len(s)),
       filtered |-> f] : s \in ArraySort(f, cmp)}
renderCountingAllRows(rs, e) ==
  IF ~hasAnyFilter(e)
  THEN {[tbody |-> Blank, count |-> CountText(SelectText, 0), filtered |-> <<>>]}
  ELSE LET f == applyFilters(rs, e)
           cmp == [a \in Range(f) |-> [b \in Range(f) |-> compared[rs[a]][rs[b]]]]
       IN {[tbody |-> IF Len(s) = 0 THEN NoMatches ELSE TableRows(s),
            count |-> CountText(FoundText, Len(rs)),
            filtered |-> f] : s \in ArraySort(f, cmp)}
render(rs, e) ==
  IF ~hasAnyFilter(e)
  THEN {[tbody |-> Blank, count |-> CountText(SelectText, 0), filtered |-> <<>>]}
  ELSE LET f == applyFilters(rs, e)
           cmp == [a \in Range(f) |-> [b \in Range(f) |-> compared[rs[a]][rs[b]]]]
       IN {[tbody |-> IF Len(s) = 0 THEN NoMatches ELSE TableRows(s),
            count |-> CountText(FoundText, Len(s)),
            filtered |-> f] : s \in ArraySort(f, cmp)}

\* The loaded array after render: rows.filter built a new array, and the
\* sort worked on that one.
rowsAfterRenderSortedInPlace(rs, sorted) ==
  IF Len(sorted) = Len(rs) THEN [k \in 1..Len(rs) |-> rs[sorted[k]]] ELSE rs
rowsAfterRender(rs, sorted) == rs

(***************************************************************************)
(* The select options.                                                     *)
(***************************************************************************)
\* rows.map(r => r[c])
column(rs, c) == [i \in 1..Len(rs) |-> rs[i][c]]

\* fillSelect: the label option with value "", then one option per value.
fillSelect(values) == <<EmptyString>> \o values

\* The comparators of the option lists, over the values vs.  Each is a
\* consistent comparator, so the sort is the stable sort.
byDayOrder(vs) == [a \in Range(vs) |-> [b \in Range(vs) |-> dayOrder(a) - dayOrder(b)]]
bySlotOrder(vs) == [a \in Range(vs) |-> [b \in Range(vs) |-> slotOrder(a) - slotOrder(b)]]
byDefault(vs) == [a \in Range(vs) |-> [b \in Range(vs) |-> defaultCompare(a, b)]]

dayDomainDefaultSort(rs) ==
  LET vs == uniq(column(rs, "Day")) IN StableSort(vs, byDefault(vs))
dayDomain(rs) ==
  LET vs == uniq(column(rs, "Day")) IN StableSort(vs, byDayOrder(vs))
slotDomain(rs) ==
  LET vs == uniq(column(rs, "Time Slot")) IN StableSort(vs, bySlotOrder(vs))
plainDomain(rs, c) ==
  LET vs == uniq(column(rs, c)) IN StableSort(vs, byDefault(vs))

populateFilters(rs) ==
  [k \in Range(Selects) |->
     fillSelect(IF k = "day" THEN dayDomain(rs)
                ELSE IF k = "slot" THEN slotDomain(rs)
                ELSE plainDomain(rs, ColumnOf(k)))]

\* populateFilters, tabulated for the datasets of Datasets.
populated == [d \in Datasets |-> populateFilters(d)]

(***************************************************************************)
(* JSON values and localStorage.                                           *)
(***************************************************************************)
JArray(items) == [type |-> "array", items |-> items]
\* A body that is valid JSON but no array, such as {"error": "..."}.
JObject == [type |-> "object", items |-> <<>>]

NoItem == <<"null">>                    \* getItem of a key never set
JSONstringify(v) == <<"json", v>>
JSONparse(text) == text[2]
\* JSON.parse(localStorage.getItem("routineData") || "[]")
parseCached(c) == JSONparse(IF c = NoItem THEN JSONstringify(JArray(<<>>)) ELSE c)

(***************************************************************************)
(* The program.                                                            *)
(***************************************************************************)
NoFilters == [q |-> EmptyString, day |-> EmptyString, slot |-> EmptyString,
              course |-> EmptyString, teacher |-> EmptyString,
              semsec |-> EmptyString, room |-> EmptyString]

\* Filter inputs that hold a value.
ActiveCount(e) ==
  LET f == currentFilters(e) IN Cardinality({k \in DOMAIN f : Truthy(f[k])})

\* The page as the script finds it, init() waiting for the fetch.
PageLoad(c) ==
  /\ els = NoFilters
  /\ options = [k \in Range(Selects) |-> <<>>]
  /\ tbody = Blank
  /\ count = CountText("", 0)
  /\ rows = JArray(<<>>)
  /\ filtered = <<>>
  /\ cache = c
  /\ phase = "loading"
  /\ last = "page"

Init == PageLoad(NoItem)

\* init() from "Populate filters" on, with `rows` and the cache as the
\* try/catch left them.  rows.map throws on a value that is no array; init's
\* promise rejects and the catch handler reports the failure.
Populate(rs) ==
  /\ rows' = rs
  /\ filtered' = filtered
  /\ IF rs.type = "array"
     THEN /\ options' = populated[rs.items]
          /\ els' = [k \in DOMAIN els |-> IF k = "q" THEN els[k] ELSE EmptyString]
          /\ tbody' = Blank
          /\ count' = CountText(SelectText, 0)
          /\ phase' = "ready"
          /\ last' = "init"
     ELSE /\ count' = CountText(FailedText, 0)
          /\ phase' = "failed"
          /\ last' = "catch"
          /\ UNCHANGED <<options, els, tbody>>

\* try: fetch resolves and res.json() parses the body to `payload`.
InitFetched(payload) ==
  /\ phase = "loading"
  /\ cache' = JSONstringify(payload)
  /\ Populate(payload)

\* catch: fetch rejected (network) or res.json() rejected (unparseable body).
InitCaught ==
  /\ phase = "loading"
  /\ cache' = cache
  /\ Populate(parseCached(cache))

\* The user types into #q while the fetch is pending: no listener yet.
TypeBeforeReady(v) ==
  /\ phase = "loading"
  /\ v # els.q
  /\ els' = [els EXCEPT !.q = v]
  /\ UNCHANGED <<options, tbody, count, rows, filtered, cache, phase, last>>

\* () => render(rows), with the inputs already holding e.
Render(e) ==
  /\ ActiveCount(e) <= MaxActive
  /\ els' = e
  /\ \E out \in render(rows.items, e) :
       /\ tbody' = out.tbody
       /\ count' = out.count
       /\ filtered' = out.filtered
       /\ rows' = JArray(rowsAfterRender(rows.items, out.tbody.trs))
  /\ last' = "render"
  /\ UNCHANGED <<options, cache, phase>>

\* "input"/"change" on #q.
QInput(v) ==
  /\ phase = "ready"
  /\ v # els.q
  /\ Render([els EXCEPT !.q = v])

\* "change" on one of the six selects: the user picked another option.
SelectChange(k, v) ==
  /\ phase = "ready"
  /\ v \in Range(options[k])
  /\ v # els[k]
  /\ Render([els EXCEPT ![k] = v])

\* "click" on #reset.
ResetClick ==
  /\ phase = "ready"
  /\ els' = NoFilters
  /\ tbody' = Blank
  /\ count' = CountText(SelectText, 0)
  /\ filtered' = <<>>
  /\ last' = "reset"
  /\ UNCHANGED <<options, rows, cache, phase>>

\* The page is opened again: a new document, the same localStorage.
Reload ==
  /\ phase # "loading"
  /\ els' = NoFilters
  /\ options' = [k \in Range(Selects) |-> <<>>]
  /\ tbody' = Blank
  /\ count' = CountText("", 0)
  /\ rows' = JArray(<<>>)
  /\ filtered' = <<>>
  /\ cache' = cache
  /\ phase' = "loading"
  /\ last' = "page"

\* What res.json() may resolve to.
Payloads == {JArray(d) : d \in Datasets} \cup {JObject}

\* init() resumes after the awaits, one way or the other.
InitResumes ==
  /\ phase = "loading"
  /\ \/ \E payload \in Payloads : InitFetched(payload)
     \/ InitCaught

Next ==
  \/ InitResumes
  \/ \E v \in QInputs : TypeBeforeReady(v)
  \/ \E v \in QInputs : QInput(v)
  \/ \E k \in Range(Selects) : \E v \in Range(options[k]) : SelectChange(k, v)
  \/ ResetClick
  \/ Reload

Spec == Init /\ [][Next]_vars

(***************************************************************************)
(* What the claims speak of, stated apart from the code above.             *)
(***************************************************************************)
Loaded == rows.items

\* Every predicate unset: nothing but white space in the query box and the
\* "no filter" option in each select.
AllUnset(e) ==
  /\ \A i \in DOMAIN e.q : e.q[i] = " "
  /\ \A k \in Range(Selects) : e[k] = EmptyString

\* The row satisfies every predicate that is set.
Satisfies(r, e) ==
  LET q == toLowerCase(trim(e.q))
      text == toLowerCase(join([i \in 1..Len(Columns) |-> Str(r[Columns[i]])], <<" ">>))
  IN /\ q # EmptyString =>
          \E i \in 1..Len(text) : i + Len(q) - 1 <= Len(text)
                                  /\ \A j \in 1..Len(q) : text[i + j - 1] = q[j]
     /\ \A k \in Range(Selects) : e[k] # EmptyString => r[ColumnOf(k)] = e[k]

Matching(e) == {i \in 1..Len(Loaded) : Satisfies(Loaded[i], e)}

\* The composite sort key of a row and its order.
SortKey(r) == <<dayOrder(r["Day"]), slotOrder(r["Time Slot"]), Str(r["Course Code"])>>
KeyLeq(a, b) ==
  LET ka == SortKey(a)
      kb == SortKey(b)
  IN \/ ka[1] < kb[1]
     \/ ka[1] = kb[1] /\ ka[2] < kb[2]
     \/ ka[1] = kb[1] /\ ka[2] = kb[2] /\ localeCompare(ka[3], kb[3]) <= 0
KeyEq(a, b) == KeyLeq(a, b) /\ KeyLeq(b, a)

\* Where the row object i stands in the displayed table.
Shown(i) == i \in Range(tbody.trs)
PlaceOf(i) == IndexIn(tbody.trs, i)

\* C1: whenever all seven predicates are unset, render leaves the inactive
\* state: no rows and the "Select a filter" message, for any row collection.
C1_UnsetRendersInactive ==
  (last = "render" /\ AllUnset(els)) =>
     (tbody = Blank /\ count = CountText(SelectText, 0))

C1_Witness ==
  /\ last = "render"
  /\ els.q = <<" ">>
  /\ AllUnset(els)
  /\ Len(Loaded) = MaxRows

\* C2: with a predicate set, applyFilters keeps a row occurrence exactly when
\* it satisfies every set predicate; it keeps each occurrence once, in the
\* order of the input, and makes up no row.
C2_FilterKeepsExactlyMatching ==
  (last = "render" /\ ~AllUnset(els)) =>
     /\ \A x \in DOMAIN filtered : filtered[x] \in 1..Len(Loaded)
     /\ \A x, y \in DOMAIN filtered : x < y => filtered[x] < filtered[y]
     /\ Range(filtered) = Matching(els)

C2_Witness ==
  /\ last = "render"
  /\ els.q = <<" ","C","2"," ">>
  /\ Len(Loaded) = MaxRows
  /\ Len(filtered) = 1
  /\ tbody = TableRows(filtered)

\* C3: the displayed rows are in ascending order of (weekday rank, slot
\* rank, Course Code).
C3_DisplaySortedByKey ==
  (last = "render" /\ tbody.html = "rows") =>
     \A x, y \in DOMAIN tbody.trs :
        x < y => KeyLeq(Loaded[tbody.trs[x]], Loaded[tbody.trs[y]])

\* C4: two displayed rows with equal weekday rank, slot rank and Course
\* Code stand in the order they have in the loaded collection.
C4_SortStable ==
  (last = "render" /\ tbody.html = "rows") =>
     \A i, j \in 1..Len(Loaded) :
        (i < j /\ Shown(i) /\ Shown(j) /\ KeyEq(Loaded[i], Loaded[j]))
           => PlaceOf(i) < PlaceOf(j)

\* The values a select offers, without its leading "no filter" option.
Domain(k) == Tail(options[k])
\* The non-empty values column c holds in the loaded rows.
Occurring(c) == {Loaded[i][c] : i \in 1..Len(Loaded)} \ {Undefined, EmptyString}
\* Where the value v of column c occurs first in the loaded rows.
FirstOccurrence(c, v) == MinOf({i \in 1..Len(Loaded) : Loaded[i][c] = v})

\* C5: after a load each select offers, behind its "no filter" option,
\* exactly the distinct non-empty values of its column in the loaded rows,
\* each once.
C5_DomainsMatchRows ==
  phase = "ready" =>
     \A k \in Range(Selects) :
        /\ Len(options[k]) >= 1 /\ options[k][1] = EmptyString
        /\ Range(Domain(k)) = Occurring(ColumnOf(k))
        /\ \A x, y \in DOMAIN Domain(k) : x # y => Domain(k)[x] # Domain(k)[y]

C5_Witness ==
  /\ phase = "ready"
  /\ Len(Loaded) = MaxRows
  /\ \E i, j \in 1..Len(Loaded) : i # j /\ Loaded[i]["Room"] = Loaded[j]["Room"]
                                        /\ Loaded[i]["Room"] = R1
  /\ \E i \in 1..Len(Loaded) : Loaded[i]["Room"] = EmptyString
  /\ \E i \in 1..Len(Loaded) : Loaded[i]["Day"] = Undefined
  /\ Domain("room") = <<R1>>

Weekdays == <<Sunday, Monday, Tuesday, Wednesday, Thursday, Friday, Saturday>>
IsWeekday(d) == d \in Range(Weekdays)
HasSlotNumber(v) == \E i \in 1..Len(Str(v)) : SlotMatchAt(Str(v), i)

\* Sunday first ... Saturday last, every other string behind them; strings
\* that are no weekday in the order of their first occurrence.
DayDomainOrdered ==
  LET dom == Domain("day")
  IN \A x, y \in DOMAIN dom :
        x < y =>
          /\ IsWeekday(dom[y]) => IsWeekday(dom[x])
          /\ (IsWeekday(dom[x]) /\ IsWeekday(dom[y]))
                => IndexIn(Weekdays, dom[x]) < IndexIn(Weekdays, dom[y])
          /\ (~IsWeekday(dom[x]) /\ ~IsWeekday(dom[y]))
                => FirstOccurrence("Day", dom[x]) < FirstOccurrence("Day", dom[y])

\* Ascending slot rank, equal ranks in the order of their first occurrence.
SlotDomainAscending ==
  LET dom == Domain("slot")
  IN \A x, y \in DOMAIN dom :
        x < y =>
          /\ slotOrder(dom[x]) <= slotOrder(dom[y])
          /\ slotOrder(dom[x]) = slotOrder(dom[y])
                => FirstOccurrence("Time Slot", dom[x]) < FirstOccurrence("Time Slot", dom[y])

C7_ThreeStates ==
  last = "render" =>
     LET n == Cardinality(Matching(els))
     IN /\ count.text \in {SelectText, FoundText}
        /\ count.text = SelectText <=> AllUnset(els)
        /\ count.text = SelectText => tbody = Blank
        /\ count.text = FoundText =>
              /\ count.n = n
              /\ n = 0 => tbody = NoMatches
              /\ n >= 1 => (tbody.html = "rows" /\ Len(tbody.trs) = n)

C7_Witness ==
  /\ last = "render"
  /\ Len(Loaded) = MaxRows
  /\ ~AllUnset(els)
  /\ count = CountText(FoundText, 0)
  /\ tbody = NoMatches

\* C8: whatever the load meets (request fails, body unparseable, body no
\* row collection), init goes on with a list of rows: the cached collection,
\* or the empty one without a cache; and a failed load leaves the cache as
\* it was.
C8_FailedLoadFallsBack ==
  [][(InitCaught \/ InitFetched(JObject)) =>
        /\ phase' = "ready"
        /\ rows'.type = "array"
        /\ rows' = parseCached(cache)
        /\ cache' = cache]_vars

\* C9: once the load has completed the display always is what render gives
\* for the loaded rows and the current filter inputs, and after a reset all
\* inputs are unset and the display is inactive.
C9_DisplayNeverStale ==
  phase = "ready" =>
     /\ \E out \in render(Loaded, els) : tbody = out.tbody /\ count = out.count
     /\ last = "reset" => (AllUnset(els) /\ tbody = Blank
                           /\ count = CountText(SelectText, 0))

\* C10: no render and no reset changes the loaded row collection: same
\* rows, same order.
C10_RowsNeverMutated ==
  [][(phase = "ready" /\ phase' = "ready") => rows' = rows]_vars

C10_Witness ==
  /\ last = "render"
  /\ Len(Loaded) = MaxRows
  /\ tbody.html = "rows"
  /\ Len(tbody.trs) = MaxRows
  /\ tbody.trs[1] = MaxRows
  /\ rows = parseCached(cache)

====
